---------------------------- MODULE Spec2Model ----------------------------
(***************************************************************************)
(* Bank-statement extraction pipeline                                      *)
(* (automatizacion-estados-de-cuenta/process_statements.py and debug.py):  *)
(* text normalisation, page-range detection, header detection, multi-line  *)
(* 'concepto' merging, rulebook matching and the two main loops.           *)
(*                                                                         *)
(* Text is a sequence of one-character tokens.  A character outside ASCII  *)
(* is a token named by its code point ("U+00CD" is I with acute accent).   *)
(***************************************************************************)
EXTENDS Integers, Sequences, FiniteSets, TLC

(***************************************************************************)
(* Characters                                                              *)
(***************************************************************************)
UpperLetters ==
    << "A","B","C","D","E","F","G","H","I","J","K","L","M",
       "N","O","P","Q","R","S","T","U","V","W","X","Y","Z" >>

LowerLetters ==
    << "a","b","c","d","e","f","g","h","i","j","k","l","m",
       "n","o","p","q","r","s","t","u","v","w","x","y","z" >>

Digits == {"0","1","2","3","4","5","6","7","8","9"}

\* Combining marks and symbols that have no ASCII encoding.
COMBINING_ACUTE == "U+0301"
COMBINING_TILDE == "U+0303"
EURO_SIGN       == "U+20AC"

\* Precomposed letters and the no-break space: NFKD decomposes them.
I_ACUTE_UPPER == "U+00CD"
I_ACUTE_LOWER == "U+00ED"
O_ACUTE_LOWER == "U+00F3"
N_TILDE_LOWER == "U+00F1"
NBSP          == "U+00A0"

\* What str.split() without arguments takes as a separator, within ASCII.
Whitespace == {" ", "\t", "\n"}

NonAscii ==
    { COMBINING_ACUTE, COMBINING_TILDE, EURO_SIGN,
      I_ACUTE_UPPER, I_ACUTE_LOWER, O_ACUTE_LOWER, N_TILDE_LOWER, NBSP }

\* Values that are not text: Python's None and pandas' NaN (a float).
None == << "<None>" >>
NaN  == << "<NaN>" >>

\* str(x): the text of a value; str(float('nan')) is 'nan'.
Str(x) == IF x = NaN THEN << "n","a","n" >>
          ELSE IF x = None THEN << "N","o","n","e" >>
          ELSE x

(***************************************************************************)
(* Sequence helpers standing for Python's str operations                   *)
(***************************************************************************)
RECURSIVE Flatten(_)
Flatten(ss) == IF ss = << >> THEN << >> ELSE Head(ss) \o Flatten(Tail(ss))

\* sep.join(parts)
RECURSIVE Join(_, _)
Join(parts, sep) ==
    IF parts = << >> THEN << >>
    ELSE IF Len(parts) = 1 THEN parts[1]
    ELSE parts[1] \o sep \o Join(Tail(parts), sep)

\* needle in hay
Contains_nonempty(hay, needle) ==
    /\ needle /= << >>
    /\ \E i \in 0..(Len(hay) - Len(needle)) :
          SubSeq(hay, i + 1, i + Len(needle)) = needle

Contains(hay, needle) ==
    \E i \in 0..(Len(hay) - Len(needle)) :
        SubSeq(hay, i + 1, i + Len(needle)) = needle

\* s.split(): split on runs of whitespace, no empty words
RECURSIVE SplitWs(_, _, _)
SplitWs(s, cur, acc) ==
    IF s = << >>
    THEN IF cur = << >> THEN acc ELSE Append(acc, cur)
    ELSE IF Head(s) \in Whitespace
         THEN SplitWs(Tail(s), << >>, IF cur = << >> THEN acc ELSE Append(acc, cur))
         ELSE SplitWs(Tail(s), Append(cur, Head(s)), acc)

\* s.split(','): split on every separator, empty parts kept
RECURSIVE SplitOn(_, _, _, _)
SplitOn(s, sep, cur, acc) ==
    IF s = << >> THEN Append(acc, cur)
    ELSE IF Head(s) = sep
         THEN SplitOn(Tail(s), sep, << >>, Append(acc, cur))
         ELSE SplitOn(Tail(s), sep, Append(cur, Head(s)), acc)

\* s.strip()
RECURSIVE LStrip(_)
LStrip(s) == IF s /= << >> /\ Head(s) \in Whitespace THEN LStrip(Tail(s)) ELSE s

RECURSIVE RStrip(_)
RStrip(s) ==
    IF s /= << >> /\ s[Len(s)] \in Whitespace
    THEN RStrip(SubSeq(s, 1, Len(s) - 1)) ELSE s

Strip(s) == RStrip(LStrip(s))

(***************************************************************************)
(* normalize_text                                                          *)
(***************************************************************************)
\* unicodedata.normalize('NFKD', .) of the characters it changes
Decomposition ==
    [c \in { I_ACUTE_UPPER, I_ACUTE_LOWER, O_ACUTE_LOWER, N_TILDE_LOWER, NBSP } |->
        CASE c = I_ACUTE_UPPER -> << "I", COMBINING_ACUTE >>
          [] c = I_ACUTE_LOWER -> << "i", COMBINING_ACUTE >>
          [] c = O_ACUTE_LOWER -> << "o", COMBINING_ACUTE >>
          [] c = N_TILDE_LOWER -> << "n", COMBINING_TILDE >>
          [] c = NBSP          -> << " " >>]

\* unicodedata.normalize('NFKD', .) of one character
Nfkd(c) == IF c \in DOMAIN Decomposition THEN Decomposition[c] ELSE << c >>

\* .encode('ASCII', 'ignore').decode('utf-8'): characters outside ASCII vanish
AsciiOnly(s) == SelectSeq(s, LAMBDA c : c \notin NonAscii)

\* .lower() of the characters it changes
LowerCase ==
    [c \in { UpperLetters[i] : i \in 1..26 } |->
        LowerLetters[CHOOSE i \in 1..26 : UpperLetters[i] = c]]

\* .lower() of one ASCII character
Lower(c) == IF c \in DOMAIN LowerCase THEN LowerCase[c] ELSE c

\* unicodedata.normalize('NFKD', s)
NfkdForm(s) == Flatten([i \in 1..Len(s) |-> Nfkd(s[i])])

\* s.lower()
LowerForm(s) == [i \in 1..Len(s) |-> Lower(s[i])]

\* The same steps with the words split before the decomposition.
normalize_text_split_first(text) ==
    IF text = None THEN << >>
    ELSE LowerForm(AsciiOnly(NfkdForm(
             Join(SplitWs(Str(text), << >>, << >>), << " " >>))))

normalize_text(text) ==
    IF text = None THEN << >>
    ELSE Join(SplitWs(LowerForm(AsciiOnly(NfkdForm(Str(text)))), << >>, << >>),
              << " " >>)

(***************************************************************************)
(* apply_rules                                                             *)
(***************************************************************************)
\* A rulebook row: the columns Priority, Keywords and 'Output Template'.
Rule(priority, keywords, template) ==
    [Priority |-> priority, Keywords |-> keywords, Template |-> template]

\* all(normalize_text(kw) in normalized_concepto for kw in keywords)
RuleMatches_any(normalized_concepto, rule) ==
    LET keywords == SplitOn(Str(rule.Keywords), ",", << >>, << >>)
    IN  \E k \in 1..Len(keywords) :
            Contains(normalized_concepto, normalize_text(keywords[k]))

RuleMatches(normalized_concepto, rule) ==
    LET keywords == SplitOn(Str(rule.Keywords), ",", << >>, << >>)
    IN  \A k \in 1..Len(keywords) :
            Contains(normalized_concepto, normalize_text(keywords[k]))

\* The for loop over rules_df.iterrows(), from row i on.
RECURSIVE RulesLoop(_, _, _, _)
RulesLoop(concepto, normalized_concepto, rules_df, i) ==
    IF i > Len(rules_df) THEN concepto
    ELSE IF RuleMatches(normalized_concepto, rules_df[i])
         THEN Str(rules_df[i].Template)
         ELSE RulesLoop(concepto, normalized_concepto, rules_df, i + 1)

apply_rules_normalized(concepto, rules_df) ==
    LET normalized_concepto == normalize_text(concepto)
    IN  RulesLoop(normalized_concepto, normalized_concepto, rules_df, 1)

apply_rules(concepto, rules_df) ==
    LET normalized_concepto == normalize_text(concepto)
    IN  RulesLoop(concepto, normalized_concepto, rules_df, 1)

(***************************************************************************)
(* The rulebook: pd.read_excel(rules_file).sort_values(by='Priority')      *)
(***************************************************************************)
\* The orders of the rows the sort may give: ascending by Priority.  The
\* default sort kind is quicksort, which is not stable, so rows of equal
\* Priority may come out in any order.
RECURSIVE SortedOrders(_, _)
SortedOrders(rows, left) ==
    IF left = {}
    THEN { << >> }
    ELSE UNION { { << rows[i] >> \o rest : rest \in SortedOrders(rows, left \ {i}) } :
                   i \in { i \in left :
                             \A j \in left : rows[i].Priority <= rows[j].Priority } }

sort_values(rows) == SortedOrders(rows, 1..Len(rows))

(***************************************************************************)
(* State                                                                   *)
(***************************************************************************)
VARIABLES
    pc,              \* where the script, or the function under check, stands
    call,            \* the arguments of the function under check
    ret,             \* what the function under check returned
    variant,         \* which script runs: "process_statements" or "debug"
    rules_file,      \* rules.xlsx on disk: its rows, or why it cannot be read
    rules_df,        \* the loaded rulebook (None before loading and on failure)
    statements_folder, \* whether the folder exists, its documents in file-name order
    load_count,      \* how many times the rulebook was read
    pdf_files,       \* the sorted list of the statements folder's documents
    file_idx,        \* the for loop's position in pdf_files
    opened,          \* the documents find_transaction_tables was called on
    sheets,          \* the sheets handed to the writer, in order
    output_created,  \* whether pd.ExcelWriter(output_excel_file) was built
    any_data_saved,  \* the success indicator
    report,          \* the final message printed
    raised           \* the exception that ended the script, if one did

vars ==
    << pc, call, ret, variant, rules_file, rules_df, load_count,
       statements_folder, pdf_files, file_idx, opened, sheets,
       output_created, any_data_saved, report, raised >>

mainVars ==
    << variant, rules_file, rules_df, load_count, statements_folder, pdf_files,
       file_idx, opened, sheets, output_created, any_data_saved, report, raised >>

\* rules.xlsx: "ok" with its rows, "missing", or "unreadable"
RulesFile(status, rows) == [status |-> status, rows |-> rows]

\* rules_df: None, or the rows loaded
NoRulebook == [loaded |-> FALSE, rows |-> << >>]

Rulebook(rows) == [loaded |-> TRUE, rows |-> rows]

\* The statements folder.
Folder(exists, files) == [exists |-> exists, files |-> files]

\* The main script's variables while a single function is under check.
MainIdle ==
    /\ variant = "none"
    /\ rules_file = RulesFile("ok", << >>)
    /\ rules_df = NoRulebook
    /\ statements_folder = Folder(TRUE, << >>)
    /\ load_count = 0
    /\ pdf_files = << >>
    /\ file_idx = 0
    /\ opened = << >>
    /\ sheets = << >>
    /\ output_created = FALSE
    /\ any_data_saved = FALSE
    /\ report = "none"
    /\ raised = "none"

(***************************************************************************)
(* Inputs of apply_rules: rulebook rows and concepto texts                 *)
(***************************************************************************)
TXT_pago_proveedor ==
    << "p", "a", "g", "o", ",", "p", "r", "o", "v", "e", "e", "d", "o", "r" >>

TXT_pago == << "p", "a", "g", "o" >>

\* ' Depósito ,': padded, accented, and with a trailing comma
TXT_deposito_kw ==
    << " ", "D", "e", "p", O_ACUTE_LOWER, "s", "i", "t", "o", " ", "," >>

TXT_Pago_a_Proveedor ==
    << "P", "a", "g", "o", " ", "a", " ", "P", "r", "o", "v", "e", "e", "d",
       "o", "r" >>

TXT_Pago_Generico ==
    << "P", "a", "g", "o", " ", "G", "e", "n", "e", "r", "i", "c", "o" >>

TXT_DEPOSITO == << "D", "E", "P", "O", "S", "I", "T", "O" >>

TXT_Otros == << "O", "t", "r", "o", "s" >>

TXT_PAGO_A_PROVEEDOR_X ==
    << "P", "A", "G", "O", " ", "A", " ", "P", "R", "O", "V", "E", "E", "D",
       "O", "R", " ", "X" >>

TXT_PAGO_SERVICIO ==
    << "P", "A", "G", "O", " ", "S", "E", "R", "V", "I", "C", "I", "O" >>

\* 'Depósito  hoy' with two spaces
TXT_Deposito_hoy ==
    << "D", "e", "p", O_ACUTE_LOWER, "s", "i", "t", "o", " ", " ", "h", "o", "y" >>

RULE_proveedor == Rule(1, TXT_pago_proveedor, TXT_Pago_a_Proveedor)
RULE_pago      == Rule(2, TXT_pago, TXT_Pago_Generico)
RULE_deposito  == Rule(2, TXT_deposito_kw, TXT_DEPOSITO)
RULE_blank     == Rule(3, << >>, TXT_Otros)
RULE_nan       == Rule(1, NaN, TXT_Otros)

\* ', ,': a doubled comma around a blank entry; every keyword normalizes to ''
TXT_comodin_kw == << ",", " ", "," >>

TXT_Comodin == << "C", "o", "m", "o", "d", "i", "n" >>

RULE_comodin == Rule(1, TXT_comodin_kw, TXT_Comodin)

RulePool ==
    { RULE_proveedor, RULE_pago, RULE_deposito, RULE_blank, RULE_nan, RULE_comodin }

\* The longest rulebook drawn.
MaxRules == 3

\* The rulebook sources: rows of the pool, no row twice, in any order.
RawRulebooks ==
    UNION { { rows \in [1..n -> RulePool] :
                \A i, j \in 1..n : rows[i] = rows[j] => i = j } : n \in 0..MaxRules }

\* The rule sets apply_rules is given: what the load's sort leaves.
SortedRulebooks == UNION { sort_values(rows) : rows \in RawRulebooks }

Conceptos ==
    { TXT_PAGO_A_PROVEEDOR_X, TXT_PAGO_SERVICIO, TXT_DEPOSITO, TXT_Deposito_hoy,
      << >>, NaN }

(***************************************************************************)
(* Specification of apply_rules: any concepto, any sorted rule set         *)
(***************************************************************************)
InitRules ==
    /\ pc = "call"
    /\ call \in [fn : {"apply_rules"}, concepto : Conceptos, rules_df : SortedRulebooks]
    /\ ret = None
    /\ MainIdle

CallApplyRules ==
    /\ pc = "call"
    /\ call.fn = "apply_rules"
    /\ ret' = apply_rules(call.concepto, call.rules_df)
    /\ pc' = "done"
    /\ UNCHANGED << call, mainVars >>

NextRules == CallApplyRules

SpecRules == InitRules /\ [][NextRules]_vars

(***************************************************************************)
(* Claims about apply_rules                                                *)
(***************************************************************************)
\* The claims' own reading of "the rule matches the concepto": every keyword
\* of the comma-separated Keywords, normalized, is part of the normalized
\* concepto.
KeywordsOf(rule) == SplitOn(Str(rule.Keywords), ",", << >>, << >>)

AllKeywordsIn(rule, concepto) ==
    \A k \in 1..Len(KeywordsOf(rule)) :
        Contains(normalize_text(concepto), normalize_text(KeywordsOf(rule)[k]))

ApplyRulesDone == pc = "done" /\ call.fn = "apply_rules"

\* C6: apply_rules returns the Output Template of the first rule, in the
\* ascending-priority order, all of whose normalized keywords are substrings
\* of the normalized concepto; no later rule is returned when an earlier one
\* matches.  With the rules {1: pago+proveedor, 2: pago}, 'PAGO A PROVEEDOR X'
\* gives the priority-1 template and 'PAGO SERVICIO' the priority-2 template.
C6_FirstMatchingRuleWins ==
    ApplyRulesDone =>
        /\ \A i \in 1..Len(call.rules_df) :
              ( /\ AllKeywordsIn(call.rules_df[i], call.concepto)
                /\ \A j \in 1..(i - 1) : ~AllKeywordsIn(call.rules_df[j], call.concepto) )
              => ret = Str(call.rules_df[i].Template)
        /\ call.rules_df = << RULE_proveedor, RULE_pago >> =>
              /\ call.concepto = TXT_PAGO_A_PROVEEDOR_X => ret = TXT_Pago_a_Proveedor
              /\ call.concepto = TXT_PAGO_SERVICIO => ret = TXT_Pago_Generico

\* C6 witness: the first rule fails on one keyword and the second rule's
\* template is returned.
C6_Witness ==
    /\ ApplyRulesDone
    /\ call.rules_df = << RULE_proveedor, RULE_pago >>
    /\ call.concepto = TXT_PAGO_SERVICIO
    /\ ret = TXT_Pago_Generico

\* C7 as stated: the original concepto is returned when no rule matches, and
\* only then: when a rule matches the result is never the input.
C7_OriginalOnlyWhenNoMatch ==
    ApplyRulesDone =>
        ( ret = call.concepto
            <=> \A i \in 1..Len(call.rules_df) :
                    ~AllKeywordsIn(call.rules_df[i], call.concepto) )

\* C7 amended: when no rule matches, apply_rules returns the original
\* concepto as given, not its normalized form; when a rule matches, the result
\* is a matching rule's template, which is the input only when that template
\* and the input are the same text.
C7_OriginalWhenNoMatch ==
    ApplyRulesDone =>
        LET matching == { i \in 1..Len(call.rules_df) :
                            AllKeywordsIn(call.rules_df[i], call.concepto) }
        IN  /\ matching = {} => ret = call.concepto
            /\ matching /= {} =>
                  /\ \E i \in matching : ret = Str(call.rules_df[i].Template)
                  /\ ret = call.concepto =>
                        \E i \in matching : Str(call.rules_df[i].Template) = call.concepto

\* C7 witness: no rule matches and the text returned is the input, which its
\* normalized form differs from.
C7_Witness ==
    /\ ApplyRulesDone
    /\ call.rules_df = << RULE_proveedor, RULE_pago >>
    /\ call.concepto = TXT_Deposito_hoy
    /\ normalize_text(call.concepto) /= call.concepto
    /\ ret = TXT_Deposito_hoy

(***************************************************************************)
(* Tables                                                                  *)
(*                                                                         *)
(* A DataFrame is its column labels and its rows, each row a sequence of   *)
(* cells aligned with the labels.  A cell is text or NaN.                  *)
(***************************************************************************)
DataFrame(columns, rows) == [columns |-> columns, rows |-> rows]

\* pd.DataFrame(): no columns, no rows
EmptyDataFrame == DataFrame(<< >>, << >>)

COL_dia      == << "d", "i", "a" >>
COL_concepto == << "c", "o", "n", "c", "e", "p", "t", "o" >>
COL_cargos   == << "c", "a", "r", "g", "o", "s" >>
COL_abonos   == << "a", "b", "o", "n", "o", "s" >>
COL_saldo    == << "s", "a", "l", "d", "o" >>

\* label in df.columns
HasColumn(df, label) == \E c \in 1..Len(df.columns) : df.columns[c] = label

\* row[label], for a label the columns hold once
Cell(df, row, label) == row[CHOOSE c \in 1..Len(df.columns) : df.columns[c] = label]

\* row[label] = value
SetCell(df, row, label, value) ==
    [row EXCEPT ![CHOOSE c \in 1..Len(df.columns) : df.columns[c] = label] = value]

\* pd.notna(x)
NotNa(x) == x /= NaN /\ x /= None

\* pd.notna(pd.to_numeric(x, errors='coerce')) for a cell that is NaN or a
\* text without sign, point or exponent: a number iff it is made of digits.
IsNumeric(x) ==
    /\ NotNa(x)
    /\ Len(x) > 0
    /\ \A i \in 1..Len(x) : x[i] \in Digits

(***************************************************************************)
(* merge_concepto_lines                                                    *)
(***************************************************************************)
\* row['concepto'] is not NaN and is not blank once stripped
HasConceptoText(df, row) ==
    /\ NotNa(Cell(df, row, COL_concepto))
    /\ Strip(Str(Cell(df, row, COL_concepto))) /= << >>

\* processed_rows[current]['concepto'] += ' ' + str(row['concepto'])
AppendConcepto_stripped(old, cell) == old \o << " " >> \o Strip(Str(cell))

AppendConcepto(old, cell) == old \o << " " >> \o Str(cell)

\* The Series iterrows() gives for the i-th row, appended as it is: a view
\* of the table's row, whose cells are the table's cells.
RowCopy_view(row, i) == [cells |-> row, shares |-> i]

\* row.copy(): a Series of its own, which shares no cell with the table.
RowCopy(row, i) == [cells |-> row, shares |-> 0]

\* The table after an assignment to a cell of a processed row: the table's
\* row changes only if the processed row shares its cells.
WrittenThrough(df, target, cells) ==
    IF target.shares = 0 THEN df
    ELSE DataFrame(df.columns, [df.rows EXCEPT ![target.shares] = cells])

\* The for loop over df.iterrows(), from row i on.  The sum of a NaN (a
\* float) and a text raises TypeError, which nothing in the function catches.
RECURSIVE MergeLoop(_, _, _, _)
MergeLoop(df, i, processed_rows, current_transaction_index) ==
    IF i > Len(df.rows)
    THEN [raised |-> FALSE, processed_rows |-> processed_rows, df |-> df]
    ELSE LET row == df.rows[i]
             is_new_transaction == IsNumeric(Cell(df, row, COL_dia))
         IN  IF is_new_transaction
             THEN MergeLoop(df, i + 1, Append(processed_rows, RowCopy(row, i)),
                            Len(processed_rows))
             ELSE IF current_transaction_index /= -1 /\ HasConceptoText(df, row)
                  THEN LET current == processed_rows[current_transaction_index + 1]
                           old     == Cell(df, current.cells, COL_concepto)
                           cells   == SetCell(df, current.cells, COL_concepto,
                                          AppendConcepto(old, Cell(df, row, COL_concepto)))
                       IN  IF ~NotNa(old)
                           THEN [raised |-> TRUE, processed_rows |-> processed_rows,
                                 df |-> df]
                           ELSE MergeLoop(WrittenThrough(df, current, cells), i + 1,
                                    [processed_rows EXCEPT
                                        ![current_transaction_index + 1] =
                                            [current EXCEPT !.cells = cells]],
                                    current_transaction_index)
                  ELSE MergeLoop(df, i + 1, processed_rows, current_transaction_index)

\* if not processed_rows: return pd.DataFrame(); return pd.DataFrame(processed_rows)
\* input is the table given, as the loop left it.
Merged(df, loop) ==
    IF loop.raised THEN [raised |-> TRUE, df |-> EmptyDataFrame, input |-> loop.df]
    ELSE IF loop.processed_rows = << >>
         THEN [raised |-> FALSE, df |-> EmptyDataFrame, input |-> loop.df]
         ELSE [raised |-> FALSE,
               df |-> DataFrame(df.columns,
                        [k \in 1..Len(loop.processed_rows) |-> loop.processed_rows[k].cells]),
               input |-> loop.df]

\* The result: whether an exception left the function, the table returned,
\* and the table given as the call left it.
merge_concepto_lines(df) ==
    IF ~HasColumn(df, COL_dia) \/ ~HasColumn(df, COL_concepto)
    THEN [raised |-> FALSE, df |-> df, input |-> df]
    ELSE Merged(df, MergeLoop(df, 1, << >>, -1))

(***************************************************************************)
(* Inputs of merge_concepto_lines                                          *)
(***************************************************************************)
TXT_A        == << "P", "A", "G", "O" >>
TXT_B_padded == << " ", "X", " " >>
TXT_blank    == << " " >>

DiaCells      == { << "7" >>, << >>, << "x" >> }
ConceptoCells == { TXT_A, TXT_B_padded, TXT_blank, NaN }

\* The cargos cell of the i-th row: every row carries its own amount, so that
\* a Transaction shows which row it was started by.
CargosCells   == << << "1" >>, << "2" >>, << "3" >>, << "4" >>, << "5" >> >>

\* The longest table given to the merge.
MaxMergeRows == 3

\* Rows under the columns dia, concepto, cargos.
RECURSIVE MergeRows(_)
MergeRows(n) ==
    IF n = 0
    THEN { << >> }
    ELSE { Append(rows, << d, c, CargosCells[n] >>) :
             rows \in MergeRows(n - 1), d \in DiaCells, c \in ConceptoCells }

MergeColumns == << COL_dia, COL_concepto, COL_cargos >>

\* Tables holding both columns, and short tables lacking one of them.
MergeInputs ==
    { DataFrame(MergeColumns, rows) :
        rows \in { SubSeq(longest, 1, n) :
                    longest \in MergeRows(MaxMergeRows), n \in 0..MaxMergeRows } }
    \cup
    { DataFrame(columns, rows) :
        columns \in { << COL_dia, COL_cargos, COL_saldo >>,
                      << COL_saldo, COL_concepto, COL_cargos >> },
        rows \in UNION { MergeRows(n) : n \in 0..1 } }

(***************************************************************************)
(* Specification of merge_concepto_lines                                   *)
(***************************************************************************)
InitMerge ==
    /\ pc = "call"
    /\ call \in [fn : {"merge_concepto_lines"}, df : MergeInputs]
    /\ ret = None
    /\ MainIdle

CallMergeConceptoLines ==
    /\ pc = "call"
    /\ call.fn = "merge_concepto_lines"
    /\ ret' = merge_concepto_lines(call.df)
    /\ pc' = "done"
    /\ UNCHANGED << call, mainVars >>

NextMerge == CallMergeConceptoLines

SpecMerge == InitMerge /\ [][NextMerge]_vars

(***************************************************************************)
(* Claims about merge_concepto_lines                                       *)
(***************************************************************************)
MergeDone == pc = "done" /\ call.fn = "merge_concepto_lines"

MergeInputHasBothColumns ==
    HasColumn(call.df, COL_dia) /\ HasColumn(call.df, COL_concepto)

\* The input rows whose 'dia' parses as a number, and the k-th of them.
NumericDiaRows(df) ==
    { i \in 1..Len(df.rows) : IsNumeric(Cell(df, df.rows[i], COL_dia)) }

NthNumericDiaRow(df, k) ==
    CHOOSE i \in NumericDiaRows(df) :
        Cardinality({ j \in NumericDiaRows(df) : j <= i }) = k

\* The row after the run of rows that the k-th numeric-'dia' row starts.
RunEnd(df, k) ==
    IF k < Cardinality(NumericDiaRows(df))
    THEN NthNumericDiaRow(df, k + 1)
    ELSE Len(df.rows) + 1

\* A cell that is text and has a character that is not whitespace.
NonBlankText(x) == x /= NaN /\ \E i \in 1..Len(x) : x[i] \notin Whitespace

\* The columns of a row other than 'concepto'.
OtherCells(df, row) ==
    [c \in { c \in 1..Len(df.columns) : df.columns[c] /= COL_concepto } |-> row[c]]

\* C4 as stated: for a table with 'dia' and 'concepto' columns the merge
\* outputs exactly one Transaction per input row whose 'dia' parses as a
\* number, in the order of those rows; the rows before the first such row are
\* dropped; with no such row the output is empty.
C4_OneTransactionPerNumericDia ==
    (MergeDone /\ MergeInputHasBothColumns) =>
        /\ ~ret.raised
        /\ Len(ret.df.rows) = Cardinality(NumericDiaRows(call.df))
        /\ \A k \in 1..Len(ret.df.rows) :
              OtherCells(call.df, ret.df.rows[k])
                  = OtherCells(call.df, call.df.rows[NthNumericDiaRow(call.df, k)])
        /\ NumericDiaRows(call.df) = {} => ret.df = EmptyDataFrame

\* C5: the final 'concepto' of each Transaction is the 'concepto' of its
\* starting row followed, for each later row up to the next numeric-'dia' row
\* whose 'concepto' is not blank, by one space and that row's raw 'concepto',
\* in input order; blank and missing 'concepto' add nothing; a continuation
\* is appended to the most recently started Transaction only.
RECURSIVE ExpectedTail(_, _, _)
ExpectedTail(df, i, end) ==
    IF i >= end THEN << >>
    ELSE ( IF NonBlankText(Cell(df, df.rows[i], COL_concepto))
           THEN << " " >> \o Cell(df, df.rows[i], COL_concepto)
           ELSE << >> )
         \o ExpectedTail(df, i + 1, end)

C5_ConceptoIsStartPlusContinuations ==
    (MergeDone /\ MergeInputHasBothColumns /\ ~ret.raised) =>
        \A k \in 1..Len(ret.df.rows) :
            LET start == NthNumericDiaRow(call.df, k)
                tail  == ExpectedTail(call.df, start + 1, RunEnd(call.df, k))
                first == Cell(call.df, call.df.rows[start], COL_concepto)
            IN  Cell(call.df, ret.df.rows[k], COL_concepto)
                    = IF tail = << >> THEN first ELSE first \o tail

\* C5 witness: two Transactions, and a padded continuation appended, as it
\* is, to the second one.
C5_Witness ==
    /\ MergeDone
    /\ ~ret.raised
    /\ call.df.columns = MergeColumns
    /\ Len(call.df.rows) = 3
    /\ Len(ret.df.rows) = 2
    /\ call.df.rows[3][2] = TXT_B_padded
    /\ ret.df.rows[1][2] = TXT_A
    /\ ret.df.rows[2][2] = TXT_A \o << " " >> \o TXT_B_padded

(***************************************************************************)
(* find_transaction_tables                                                 *)
(*                                                                         *)
(* A document is what fitz and camelot give for it: whether it opens, the  *)
(* text of each page (or PAGE_RAISES where get_text raises), whether the   *)
(* table extraction raises, and the raw tables it returns otherwise.  A    *)
(* raw table is a sequence of rows of text cells.                          *)
(***************************************************************************)
Document(opens, pages, camelot_raises, tables) ==
    [opens |-> opens, pages |-> pages,
     camelot_raises |-> camelot_raises, tables |-> tables]

PAGE_RAISES == << "<raises>" >>

\* start_page, end_page = None, None: pages count from 1, so 0 is no page
NoPage == 0

MARKER_saldo_inicial ==
    << "s", "a", "l", "d", "o", " ", "i", "n", "i", "c", "i", "a", "l" >>

MARKER_saldo_minimo_requerido ==
    << "s", "a", "l", "d", "o", " ", "m", "i", "n", "i", "m", "o", " ", "r",
       "e", "q", "u", "e", "r", "i", "d", "o" >>

start_marker == normalize_text(MARKER_saldo_inicial)

end_marker == normalize_text(MARKER_saldo_minimo_requerido)

required_headers ==
    << normalize_text(COL_dia), normalize_text(COL_concepto),
       normalize_text(COL_cargos), normalize_text(COL_abonos),
       normalize_text(COL_saldo) >>

\* The two tests of the page loop on a page's normalized text.
MarkPage_overwrite(start_page, end_page, page_num, text) ==
    [start_page |-> IF Contains(text, start_marker) THEN page_num ELSE start_page,
     end_page   |-> IF Contains(text, end_marker) THEN page_num ELSE end_page]

MarkPage(start_page, end_page, page_num, text) ==
    [start_page |-> IF start_page = NoPage /\ Contains(text, start_marker)
                    THEN page_num ELSE start_page,
     end_page   |-> IF Contains(text, end_marker) THEN page_num ELSE end_page]

\* The body of the page loop: text = normalize_text(page.get_text("text"))
ScanPage(start_page, end_page, page_num, page_text) ==
    MarkPage(start_page, end_page, page_num, normalize_text(page_text))

\* The page loop's next turn, with what this page's turn found.
RECURSIVE ScanPages(_, _, _, _)
ScanNext(pages, page_num, found) ==
    ScanPages(pages, page_num + 1, found.start_page, found.end_page)

\* for page_num, page in enumerate(doc, start=1), from page_num on
ScanPages(pages, page_num, start_page, end_page) ==
    IF page_num > Len(pages)
    THEN [raised |-> FALSE, start_page |-> start_page, end_page |-> end_page]
    ELSE IF pages[page_num] = PAGE_RAISES
         THEN [raised |-> TRUE, start_page |-> start_page, end_page |-> end_page]
         ELSE ScanNext(pages, page_num,
                  ScanPage(start_page, end_page, page_num, pages[page_num]))

\* start_page is None or end_page is None or end_page < start_page
RangeInvalid_strict(start_page, end_page) ==
    start_page = NoPage \/ end_page = NoPage \/ end_page <= start_page

RangeInvalid(start_page, end_page) ==
    start_page = NoPage \/ end_page = NoPage \/ end_page < start_page

\* range(min(5, len(df))): how many rows are tried as the header
HeaderRows == 5

\* all(req_header in row_as_string for req_header in required_headers)
HoldsRequiredHeaders(row_as_string) ==
    \A h \in 1..Len(required_headers) : Contains(row_as_string, required_headers[h])

\* row_as_string = ' '.join([normalize_text(cell) for cell in df.iloc[i].fillna('')])
IsHeaderRow(row) ==
    HoldsRequiredHeaders(Join([c \in 1..Len(row) |-> normalize_text(row[c])], << " " >>))

\* The header loop from row i on (rows count from 0): the row found, or -1.
RECURSIVE FindHeader(_, _, _)
FindHeader(rows, i, limit) ==
    IF i >= limit THEN -1
    ELSE IF IsHeaderRow(rows[i + 1]) THEN i
    ELSE FindHeader(rows, i + 1, limit)

\* min(5, len(df))
HeaderLimit_all(rows) == Len(rows)

HeaderLimit(rows) == IF HeaderRows < Len(rows) THEN HeaderRows ELSE Len(rows)

\* df.empty: no rows, or no columns
IsEmptyTable(rows) == rows = << >> \/ rows[1] = << >>

\* if header_found_at_row != -1: the table rebuilt under its header row
Rebased(rows, header_found_at_row) ==
    IF header_found_at_row = -1 THEN << >>
    ELSE << DataFrame(
              [c \in 1..Len(rows[header_found_at_row + 1]) |->
                  normalize_text(rows[header_found_at_row + 1][c])],
              SubSeq(rows, header_found_at_row + 2, Len(rows))) >>

\* The body of the table loop: the tables this raw table adds to final_tables.
NormalizeTable(rows) ==
    IF IsEmptyTable(rows) THEN << >>
    ELSE Rebased(rows, FindHeader(rows, 0, HeaderLimit(rows)))

\* What a call leaves behind: the tables returned, whether the document was
\* opened and closed, the page ranges camelot.read_pdf was called with.
Found(tables, doc_opened, doc_closed, camelot_calls) ==
    [tables |-> tables, doc_opened |-> doc_opened, doc_closed |-> doc_closed,
     camelot_calls |-> camelot_calls]

\* After the page loop: the range test, the extraction, the table loop.
AfterScan(doc, scan) ==
    IF scan.raised THEN Found(<< >>, TRUE, FALSE, << >>)
    ELSE IF RangeInvalid(scan.start_page, scan.end_page)
         THEN Found(<< >>, TRUE, TRUE, << >>)
         ELSE IF doc.camelot_raises
              THEN Found(<< >>, TRUE, TRUE, << << scan.start_page, scan.end_page >> >>)
              ELSE Found(
                     Flatten([t \in 1..Len(doc.tables) |-> NormalizeTable(doc.tables[t])]),
                     TRUE, TRUE, << << scan.start_page, scan.end_page >> >>)

find_transaction_tables(doc) ==
    IF ~doc.opens THEN Found(<< >>, FALSE, FALSE, << >>)
    ELSE AfterScan(doc, ScanPages(doc.pages, 1, NoPage, NoPage))

(***************************************************************************)
(* Inputs of find_transaction_tables                                       *)
(***************************************************************************)
PAGE_plain == << "R", "e", "s", "u", "m", "e", "n" >>

\* 'SALDO  INICIAL 5': upper case, two spaces
PAGE_start ==
    << "S", "A", "L", "D", "O", " ", " ", "I", "N", "I", "C", "I", "A", "L",
       " ", "5" >>

\* 'Saldo Mínimo', a line break, 'Requerido'
PAGE_end ==
    << "S", "a", "l", "d", "o", " ", "M", I_ACUTE_LOWER, "n", "i", "m", "o",
       "\n", "R", "e", "q", "u", "e", "r", "i", "d", "o" >>

\* both markers on one page
PAGE_both ==
    << "S", "a", "l", "d", "o", " ", "i", "n", "i", "c", "i", "a", "l", " ",
       "5", "\t", "S", "A", "L", "D", "O", " ", "M", I_ACUTE_UPPER, "N", "I",
       "M", "O", " ", "R", "E", "Q", "U", "E", "R", "I", "D", "O", " ", "9" >>

PageKinds == { PAGE_plain, PAGE_start, PAGE_end, PAGE_both, PAGE_RAISES }

\* The longest document scanned.
MaxPages == 5

\* 'DÍA', 'Concepto', 'CARGOS', 'Abonos ', 'Saldo'
ROW_header ==
    << << "D", I_ACUTE_UPPER, "A" >>,
       << "C", "o", "n", "c", "e", "p", "t", "o" >>,
       << "C", "A", "R", "G", "O", "S" >>,
       << "A", "b", "o", "n", "o", "s", " " >>,
       << "S", "a", "l", "d", "o" >> >>

\* 'DIA CONCEPTO' in one cell, an empty cell at the end
ROW_header_split ==
    << << "D", "I", "A", " ", "C", "O", "N", "C", "E", "P", "T", "O" >>,
       COL_cargos, COL_abonos, COL_saldo, << >> >>

\* four of the five labels
ROW_partial == << COL_dia, COL_concepto, COL_cargos, COL_abonos, << >> >>

ROW_data == << << "7" >>, TXT_A, << "1" >>, << >>, << "9" >> >>

ROW_continuation == << << >>, TXT_B_padded, << >>, << >>, << >> >>

TABLE_good == << ROW_header, ROW_data, ROW_continuation >>

ScanDocuments ==
    { Document(FALSE, << >>, FALSE, << >>) }
    \cup
    { Document(TRUE, pages, camelot_raises, << TABLE_good >>) :
        pages \in UNION { [1..n -> PageKinds] : n \in 0..MaxPages },
        camelot_raises \in BOOLEAN }

(***************************************************************************)
(* Specification of the page scan of find_transaction_tables               *)
(***************************************************************************)
InitScan ==
    /\ pc = "call"
    /\ call \in [fn : {"find_transaction_tables"}, doc : ScanDocuments]
    /\ ret = None
    /\ MainIdle

CallFindTransactionTables ==
    /\ pc = "call"
    /\ call.fn = "find_transaction_tables"
    /\ ret' = find_transaction_tables(call.doc)
    /\ pc' = "done"
    /\ UNCHANGED << call, mainVars >>

NextScan == CallFindTransactionTables

SpecScan == InitScan /\ [][NextScan]_vars

(***************************************************************************)
(* Claims about the page scan                                              *)
(***************************************************************************)
FindDone == pc = "done" /\ call.fn = "find_transaction_tables"

\* The normalized text of each page text the documents are made of.
NormalizedPage == [text \in PageKinds \ {PAGE_RAISES} |-> normalize_text(text)]

\* The pages (numbered from 1) whose normalized text holds a marker.
PagesWith(pages, marker) ==
    { p \in 1..Len(pages) :
        pages[p] /= PAGE_RAISES /\ Contains(NormalizedPage[pages[p]], marker) }

StartMarkerPages(doc) == PagesWith(doc.pages, MARKER_saldo_inicial)

EndMarkerPages(doc) == PagesWith(doc.pages, MARKER_saldo_minimo_requerido)

Lowest(S) == CHOOSE x \in S : \A y \in S : x <= y

Highest(S) == CHOOSE x \in S : \A y \in S : y <= x

ReadRaises(doc) ==
    ~doc.opens \/ \E p \in 1..Len(doc.pages) : doc.pages[p] = PAGE_RAISES

\* C1: when a valid range is produced, its start is the lowest-numbered page
\* whose normalized text contains 'saldo inicial' and its end the
\* highest-numbered page whose normalized text contains 'saldo minimo
\* requerido'; a start marker on page 3 and end markers on pages 3 and 5
\* give 3-5.
C1_RangeIsFirstStartLastEnd ==
    (FindDone /\ ret.camelot_calls /= << >>) =>
        /\ StartMarkerPages(call.doc) /= {}
        /\ EndMarkerPages(call.doc) /= {}
        /\ ret.camelot_calls =
              << << Lowest(StartMarkerPages(call.doc)),
                    Highest(EndMarkerPages(call.doc)) >> >>
        /\ ( /\ StartMarkerPages(call.doc) = {3}
             /\ EndMarkerPages(call.doc) = {3, 5} )
           => ret.camelot_calls = << << 3, 5 >> >>

\* C1 witness: start markers on pages 2, 3 and 4, end markers on pages 3
\* and 5: the range is 2-5.
C1_Witness ==
    /\ FindDone
    /\ call.doc.pages = << PAGE_plain, PAGE_start, PAGE_both, PAGE_start, PAGE_end >>
    /\ ret.camelot_calls = << << 2, 5 >> >>

\* C2: the function returns no table and never calls the extractor when no
\* page holds the start marker, no page holds the end marker, the last
\* end-marker page precedes the first start-marker page, or opening or
\* reading the document raises; a range whose start equals its end is valid
\* and goes to the extractor.
C2_NoRangeNoExtraction ==
    FindDone =>
        /\ ( \/ ReadRaises(call.doc)
             \/ StartMarkerPages(call.doc) = {}
             \/ EndMarkerPages(call.doc) = {}
             \/ Highest(EndMarkerPages(call.doc)) < Lowest(StartMarkerPages(call.doc)) )
           => ret.tables = << >> /\ ret.camelot_calls = << >>
        /\ ( /\ ~ReadRaises(call.doc)
             /\ StartMarkerPages(call.doc) /= {}
             /\ EndMarkerPages(call.doc) /= {}
             /\ Highest(EndMarkerPages(call.doc)) = Lowest(StartMarkerPages(call.doc)) )
           => ret.camelot_calls =
                 << << Lowest(StartMarkerPages(call.doc)),
                       Lowest(StartMarkerPages(call.doc)) >> >>

\* C2 witness: every page is read, both markers occur, and the last end
\* marker is on a page before the first start marker.
C2_Witness ==
    /\ FindDone
    /\ call.doc.pages = << PAGE_end, PAGE_plain, PAGE_start >>
    /\ ~call.doc.camelot_raises
    /\ ret.tables = << >>
    /\ ret.camelot_calls = << >>

(***************************************************************************)
(* Specification of the header detection of find_transaction_tables        *)
(***************************************************************************)
HeaderRowKinds == { ROW_header, ROW_header_split, ROW_partial, ROW_data }

\* The longest raw table the extractor returns.
MaxTableRows == 6

RawTables == UNION { [1..n -> HeaderRowKinds] : n \in 0..MaxTableRows }

\* A raw table of rows without cells: df.empty holds although it has rows.
TABLE_no_columns == << << >>, << >> >>

\* Documents with a valid page range: one raw table of any shape, or a raw
\* table between two others.
HeaderDocuments ==
    { Document(TRUE, << PAGE_both >>, FALSE, << table >>) : table \in RawTables }
    \cup
    { Document(TRUE, << PAGE_both >>, FALSE, << TABLE_good, table, TABLE_no_columns >>) :
        table \in UNION { [1..n -> HeaderRowKinds] : n \in 0..2 } }

InitHeader ==
    /\ pc = "call"
    /\ call \in [fn : {"find_transaction_tables"}, doc : HeaderDocuments]
    /\ ret = None
    /\ MainIdle

NextHeader == CallFindTransactionTables

SpecHeader == InitHeader /\ [][NextHeader]_vars

(***************************************************************************)
(* Claims about the header detection                                       *)
(***************************************************************************)
\* The normalized cells of each row the raw tables are made of.
NormalizedRow ==
    [row \in HeaderRowKinds \cup {ROW_continuation} |->
        [c \in 1..Len(row) |-> normalize_text(row[c])]]

\* The row's normalized cells, joined by spaces, hold each required label.
Qualifies(row) ==
    \A label \in { COL_dia, COL_concepto, COL_cargos, COL_abonos, COL_saldo } :
        Contains(Join(NormalizedRow[row], << " " >>), label)

\* The rows (counted from 0) among the first 5 that qualify.
QualifyingRows(table) ==
    { i \in 0..(Len(table) - 1) : i < 5 /\ Qualifies(table[i + 1]) }

\* What a raw table contributes: nothing, or the rows after its header row
\* under that row's normalized cells.
Contribution(table) ==
    IF table = << >> \/ table[1] = << >> \/ QualifyingRows(table) = {}
    THEN << >>
    ELSE LET i == Lowest(QualifyingRows(table))
         IN  << [columns |-> NormalizedRow[table[i + 1]],
                 rows    |-> [k \in 1..(Len(table) - i - 1) |-> table[i + 1 + k]]] >>

\* C3: for every non-empty raw table the header is the lowest-index row
\* among the first min(5, rows) whose space-joined normalized cells hold
\* 'dia', 'concepto', 'cargos', 'abonos' and 'saldo'; the normalized table is
\* the rows after it, in order, under its normalized cells; a table with no
\* such row among its first 5, also when one follows at index 5 or later,
\* contributes nothing.
C3_HeaderIsFirstQualifyingRow ==
    FindDone =>
        ret.tables = Flatten([t \in 1..Len(call.doc.tables) |->
                                Contribution(call.doc.tables[t])])

\* C3 witness: the rows 0 and 1 do not qualify, the rows 2 and 3 both do:
\* row 2 is the header and row 3 is data.
C3_Witness ==
    /\ FindDone
    /\ call.doc.tables =
          << << ROW_partial, ROW_data, ROW_header, ROW_header_split, ROW_data >> >>
    /\ Len(ret.tables) = 1
    /\ ret.tables[1].columns =
          << COL_dia, COL_concepto, COL_cargos, COL_abonos, COL_saldo >>
    /\ ret.tables[1].rows = << ROW_header_split, ROW_data >>

\* A table whose only qualifying row is at index 5 contributes nothing.
C3_LateHeaderReached ==
    /\ FindDone
    /\ call.doc.tables =
          << << ROW_data, ROW_data, ROW_data, ROW_data, ROW_data, ROW_header >> >>
    /\ ret.tables = << >>

(***************************************************************************)
(* The main scripts                                                        *)
(***************************************************************************)
\* The column labels of pd.concat(tables): each label once, by first use.
RECURSIVE UnionColumns(_, _)
UnionColumns(tables, columns) ==
    IF tables = << >> THEN columns
    ELSE UnionColumns(Tail(tables),
            columns \o SelectSeq(Head(tables).columns,
                          LAMBDA label : \A c \in 1..Len(columns) : columns[c] /= label))

\* pd.concat(tables_from_pdf, ignore_index=True) of tables whose labels are
\* distinct within each table: a cell under a label its table lacks is NaN.
ConcatAs(tables, columns) ==
    DataFrame(columns,
        Flatten([t \in 1..Len(tables) |->
            [r \in 1..Len(tables[t].rows) |->
                [c \in 1..Len(columns) |->
                    IF HasColumn(tables[t], columns[c])
                    THEN Cell(tables[t], tables[t].rows[r], columns[c])
                    ELSE NaN]]]))

Concat(tables) == ConcatAs(tables, UnionColumns(tables, << >>))

\* cleaned_df['concepto'] = cleaned_df['concepto'].apply(apply_rules, args=(rules_df,))
ApplyRulebook(df, rows) ==
    DataFrame(df.columns,
        [r \in 1..Len(df.rows) |->
            SetCell(df, df.rows[r], COL_concepto,
                apply_rules(Cell(df, df.rows[r], COL_concepto), rows))])

\* if rules_df is not None
RulebookLoaded_always(rulebook) == TRUE

RulebookLoaded(rulebook) == rulebook.loaded

\* process_statements.py: the try block that reads and sorts the rulebook.
LoadRulebook ==
    /\ pc = "load_rules"
    /\ variant = "process_statements"
    /\ load_count' = load_count + 1
    /\ IF rules_file.status = "ok"
       THEN \E sorted \in sort_values(rules_file.rows) : rules_df' = Rulebook(sorted)
       ELSE rules_df' = NoRulebook
    /\ pc' = IF RulebookLoaded(rules_df') THEN "list_files" ELSE "done"
    /\ UNCHANGED << call, ret, variant, rules_file, statements_folder, pdf_files,
                    file_idx, opened, sheets, output_created, any_data_saved,
                    report, raised >>

\* debug.py: if not os.path.isdir(statements_folder)
CheckFolder ==
    /\ pc = "check_folder"
    /\ variant = "debug"
    /\ IF statements_folder.exists
       THEN pc' = "list_files" /\ report' = report
       ELSE pc' = "done" /\ report' = "folder_not_found"
    /\ UNCHANGED << call, ret, variant, rules_file, rules_df, load_count,
                    statements_folder, pdf_files, file_idx, opened, sheets,
                    output_created, any_data_saved, raised >>

\* pdf_files = sorted(...), with pd.ExcelWriter(...) as writer, any_data_saved = False
StartRun ==
    /\ pc = "list_files"
    /\ IF statements_folder.exists
       THEN /\ pdf_files' = statements_folder.files
            /\ output_created' = TRUE
            /\ pc' = "loop"
            /\ raised' = raised
       ELSE /\ raised' = "FileNotFoundError"
            /\ pc' = "aborted"
            /\ UNCHANGED << pdf_files, output_created >>
    /\ any_data_saved' = FALSE
    /\ file_idx' = 0
    /\ UNCHANGED << call, ret, variant, rules_file, rules_df, load_count,
                    statements_folder, opened, sheets, report >>

\* What the loop body does with one document: the exception that leaves it,
\* or the sheet it writes (none when no table was found).
Processed(exception, wrote, df) == [raised |-> exception, wrote |-> wrote, df |-> df]

\* cleaned_df = merge_concepto_lines(pdf_df), then the rulebook and the sheet
ProcessMerged(merged) ==
    IF merged.raised THEN Processed("TypeError", FALSE, EmptyDataFrame)
    ELSE IF variant = "debug" THEN Processed("none", TRUE, merged.df)
    ELSE IF ~HasColumn(merged.df, COL_concepto)
         THEN Processed("KeyError", FALSE, EmptyDataFrame)
         ELSE Processed("none", TRUE, ApplyRulebook(merged.df, rules_df.rows))

\* if tables_from_pdf: pdf_df = pd.concat(tables_from_pdf, ignore_index=True)
ProcessTables(tables_from_pdf) ==
    IF tables_from_pdf = << >> THEN Processed("none", FALSE, EmptyDataFrame)
    ELSE ProcessMerged(merge_concepto_lines(Concat(tables_from_pdf)))

ProcessFile(doc) == ProcessTables(find_transaction_tables(doc).tables)

\* One turn of for filename in pdf_files.
ProcessDocument ==
    /\ pc = "loop"
    /\ file_idx < Len(pdf_files)
    /\ \E done \in { ProcessFile(pdf_files[file_idx + 1]) } :
           /\ opened' = Append(opened, file_idx + 1)
           /\ IF done.raised /= "none"
              THEN /\ raised' = done.raised
                   /\ pc' = "aborted"
                   /\ UNCHANGED << file_idx, sheets, any_data_saved >>
              ELSE /\ file_idx' = file_idx + 1
                   /\ sheets' = IF done.wrote
                                THEN Append(sheets, [file |-> file_idx + 1, df |-> done.df])
                                ELSE sheets
                   /\ any_data_saved' = (any_data_saved \/ done.wrote)
                   /\ UNCHANGED << pc, raised >>
    /\ UNCHANGED << call, ret, variant, rules_file, rules_df, load_count,
                    statements_folder, pdf_files, output_created, report >>

\* if any_data_saved: ... else: ...
Report ==
    /\ pc = "loop"
    /\ file_idx = Len(pdf_files)
    /\ report' = IF any_data_saved THEN "success" ELSE "no_tables"
    /\ pc' = "done"
    /\ UNCHANGED << call, ret, variant, rules_file, rules_df, load_count,
                    statements_folder, pdf_files, file_idx, opened, sheets,
                    output_created, any_data_saved, raised >>

(***************************************************************************)
(* Inputs of the main scripts                                              *)
(***************************************************************************)
\* 'Dia', 'Concepto Cargos', 'Abonos', 'Saldo', '': two labels in one cell
ROW_header_merged ==
    << << "D", "i", "a" >>,
       << "C", "o", "n", "c", "e", "p", "t", "o", " ", "C", "a", "r", "g", "o", "s" >>,
       << "A", "b", "o", "n", "o", "s" >>,
       << "S", "a", "l", "d", "o" >>,
       << >> >>

\* fitz.open raises
DOC_unreadable == Document(FALSE, << >>, FALSE, << >>)

\* the only end marker precedes nothing: no start marker at all
DOC_no_range == Document(TRUE, << PAGE_plain, PAGE_end >>, FALSE, << TABLE_good >>)

\* camelot.read_pdf raises
DOC_extraction_error == Document(TRUE, << PAGE_both >>, TRUE, << >>)

\* no row of the table holds the five labels
DOC_no_header == Document(TRUE, << PAGE_both >>, FALSE, << << ROW_partial, ROW_data >> >>)

\* the header has 'dia concepto' in one cell: no exact 'dia', no exact 'concepto'
DOC_no_exact_columns ==
    Document(TRUE, << PAGE_both >>, FALSE, << << ROW_header_split, ROW_data >> >>)

\* a header and a continuation row only: the merge yields no Transaction
DOC_no_transactions ==
    Document(TRUE, << PAGE_both >>, FALSE, << << ROW_header, ROW_continuation >> >>)

\* one Transaction of two lines
DOC_good == Document(TRUE, << PAGE_start, PAGE_end >>, FALSE, << TABLE_good >>)

\* two tables whose labels differ: the rows of the first have no 'concepto',
\* and the second table starts with a continuation row
DOC_mixed_headers ==
    Document(TRUE, << PAGE_both >>, FALSE,
        << << ROW_header_merged, ROW_data >>,
           << ROW_header, ROW_continuation, ROW_data >> >>)

\* The documents whose failure, if any, is one of the soft failures.
SoftDocuments ==
    { DOC_unreadable, DOC_no_range, DOC_extraction_error, DOC_no_header,
      DOC_no_exact_columns, DOC_no_transactions, DOC_good }

MainDocuments == SoftDocuments \cup { DOC_mixed_headers }

\* The most documents in the statements folder.
MaxDocs == 2

Folders ==
    { Folder(FALSE, << >>) }
    \cup
    { Folder(TRUE, files) : files \in UNION { [1..n -> MainDocuments] : n \in 0..MaxDocs } }

\* A second rule on the keyword 'pago', of the same Priority as RULE_pago.
RULE_pago_otros == Rule(2, TXT_pago, TXT_Otros)

RulesFiles ==
    { RulesFile("missing", << >>), RulesFile("unreadable", << >>),
      RulesFile("ok", << >>),
      RulesFile("ok", << RULE_pago, RULE_proveedor, RULE_deposito >>),
      RulesFile("ok", << RULE_pago, RULE_pago_otros >>) }

(***************************************************************************)
(* Specification of the two main scripts                                   *)
(***************************************************************************)
InitMain ==
    /\ variant \in { "process_statements", "debug" }
    /\ pc = IF variant = "process_statements" THEN "load_rules" ELSE "check_folder"
    /\ rules_file \in IF variant = "process_statements"
                      THEN RulesFiles ELSE { RulesFile("missing", << >>) }
    /\ statements_folder \in Folders
    /\ rules_df = NoRulebook
    /\ load_count = 0
    /\ pdf_files = << >>
    /\ file_idx = 0
    /\ opened = << >>
    /\ sheets = << >>
    /\ output_created = FALSE
    /\ any_data_saved = FALSE
    /\ report = "none"
    /\ raised = "none"
    /\ call = None
    /\ ret = None

NextMain ==
    \/ LoadRulebook
    \/ CheckFolder
    \/ StartRun
    \/ ProcessDocument
    \/ Report

SpecMain == InitMain /\ [][NextMain]_vars

(***************************************************************************)
(* Claims about the main scripts                                           *)
(***************************************************************************)
\* C8 as stated: in a run over several documents, a soft failure of one
\* document (unreadable, no page range, extraction error, no header, no
\* exact 'dia' or 'concepto' column, a merge that yields no Transaction)
\* never aborts the run: every document of the list is processed and the
\* final report is reached, in the rule-applying main loop too.
C8_SoftFailuresNeverAbort ==
    ( /\ statements_folder.exists
      /\ \A i \in 1..Len(statements_folder.files) :
            statements_folder.files[i] \in SoftDocuments )
    => /\ pc /= "aborted"
       /\ pc = "done" /\ RulebookLoaded(rules_df) =>
             /\ report \in { "success", "no_tables" }
             /\ opened = [i \in 1..Len(statements_folder.files) |-> i]

\* The Transactions handed to the writer: the rows of the sheets written.
TransactionsWritten == { i \in 1..Len(sheets) : sheets[i].df.rows /= << >> }

\* C9 as stated: at the end of a run the success indicator is true if and
\* only if at least one Transaction was handed to the writer for some
\* document; a run in which every document yields no Transaction reports
\* that no document produced output.
C9_SuccessIffOutput ==
    (pc = "done" /\ report \in { "success", "no_tables" }) =>
        /\ any_data_saved <=> TransactionsWritten /= {}
        /\ report = "success" <=> TransactionsWritten /= {}

\* C10: in the rule-applying script the rulebook is loaded and sorted once,
\* before any document is processed; if loading fails no document is opened,
\* no sheet is written and the output file is not created; no later step
\* changes the rule set.
C10_LoadOnceOrNothing ==
    variant = "process_statements" =>
        /\ load_count <= 1
        /\ pc /= "load_rules" => load_count = 1
        /\ (opened /= << >> \/ sheets /= << >> \/ output_created) =>
              /\ load_count = 1
              /\ rules_file.status = "ok"
              /\ rules_df.loaded
              /\ \A i \in 1..(Len(rules_df.rows) - 1) :
                    rules_df.rows[i].Priority <= rules_df.rows[i + 1].Priority
              /\ { rules_df.rows[i] : i \in 1..Len(rules_df.rows) }
                    = { rules_file.rows[i] : i \in 1..Len(rules_file.rows) }
        /\ (pc /= "load_rules" /\ rules_file.status /= "ok") =>
              /\ ~rules_df.loaded
              /\ opened = << >>
              /\ sheets = << >>
              /\ ~output_created
              /\ pc = "done"

C10_RulesNeverChange ==
    [][pc /= "load_rules" => rules_df' = rules_df]_vars

C10_RulebookLoadedOnceBeforeDocuments ==
    [] C10_LoadOnceOrNothing /\ C10_RulesNeverChange

\* C10 witness: the rulebook could not be read and the script ended having
\* opened and written nothing, with documents waiting in the folder.
C10_Witness ==
    /\ variant = "process_statements"
    /\ pc = "done"
    /\ rules_file.status = "unreadable"
    /\ Len(statements_folder.files) = 2
    /\ load_count = 1
    /\ opened = << >>
    /\ ~output_created

(***************************************************************************)
(* Inputs of normalize_text                                                *)
(***************************************************************************)
\* Characters of the texts: letters of both cases, ASCII whitespace, letters
\* with an accent, the no-break space and a symbol with no ASCII form.
TextAlphabet ==
    { "A", "b", " ", "\t", I_ACUTE_UPPER, N_TILDE_LOWER, NBSP, EURO_SIGN }

\* The longest text given to normalize_text.
MaxTextLen == 4

Texts == UNION { [1..n -> TextAlphabet] : n \in 0..MaxTextLen }

(***************************************************************************)
(* Specification of normalize_text: the function applied to any value, and *)
(* then to its own result                                                  *)
(***************************************************************************)
InitNormalize ==
    /\ pc = "call"
    /\ call \in [fn : {"normalize_text"}, text : Texts \cup {None, NaN}, first : {None}]
    /\ ret = None
    /\ MainIdle

CallNormalizeText ==
    /\ pc = "call"
    /\ call.fn = "normalize_text"
    /\ ret' = normalize_text(call.text)
    /\ pc' = "done"
    /\ UNCHANGED << call, mainVars >>

\* normalize_text(normalize_text(x)): the first result is kept in call.first.
CallNormalizeTextAgain ==
    /\ pc = "done"
    /\ call.fn = "normalize_text"
    /\ call' = [call EXCEPT !.first = ret]
    /\ ret' = normalize_text(ret)
    /\ pc' = "again"
    /\ UNCHANGED mainVars

NextNormalize == CallNormalizeText \/ CallNormalizeTextAgain

SpecNormalize == InitNormalize /\ [][NextNormalize]_vars

(***************************************************************************)
(* Claims about normalize_text                                             *)
(***************************************************************************)
NormalizeDone == pc \in {"done", "again"} /\ call.fn = "normalize_text"

AsciiCharacters ==
    { UpperLetters[i] : i \in 1..26 } \cup { LowerLetters[i] : i \in 1..26 }
        \cup Digits \cup {" ", "\t", "\n"}

\* C11: normalize_text is idempotent and ASCII-only.  For every input, None
\* and the empty text included (both give ''), normalizing the result again
\* gives the same result, and the result holds only ASCII characters, no
\* uppercase letter, no leading or trailing whitespace and no run of two or
\* more whitespace characters.
C11_NormalizeIdempotentAscii ==
    NormalizeDone =>
        /\ pc = "again" => ret = call.first
        /\ call.text \in {None, << >>} => ret = << >>
        /\ \A i \in 1..Len(ret) :
              /\ ret[i] \in AsciiCharacters
              /\ ret[i] \notin { UpperLetters[k] : k \in 1..26 }
        /\ ret /= << >> => (ret[1] \notin Whitespace /\ ret[Len(ret)] \notin Whitespace)
        /\ \A i \in 1..(Len(ret) - 1) :
              ~(ret[i] \in Whitespace /\ ret[i + 1] \in Whitespace)

\* C11 witness: an accented capital, a no-break space next to a tab and a
\* capital come out as 'i a', and normalizing 'i a' gave 'i a' again.
C11_Witness ==
    /\ pc = "again"
    /\ call.fn = "normalize_text"
    /\ call.text = << I_ACUTE_UPPER, NBSP, "\t", "A" >>
    /\ call.first = << "i", " ", "a" >>
    /\ ret = << "i", " ", "a" >>

(***************************************************************************)
(* Claims about the order of rules of equal Priority                       *)
(***************************************************************************)
\* Where a row stands in the rulebook source.
SourceIndex(rows, row) == CHOOSE i \in 1..Len(rows) : rows[i] = row

\* The order a stable sort gives: ascending Priority, rows of equal Priority
\* as listed in the source.
StableOrder(rows) ==
    CHOOSE sorted \in sort_values(rows) :
        \A i, j \in 1..Len(sorted) :
            (i < j /\ sorted[i].Priority = sorted[j].Priority)
                => SourceIndex(rows, sorted[i]) < SourceIndex(rows, sorted[j])

\* The sheet of a document when the rules are applied in the stable order.
SheetUnderStableOrder(doc) ==
    ApplyRulebook(merge_concepto_lines(Concat(find_transaction_tables(doc).tables)).df,
                  StableOrder(rules_file.rows))

\* C12 as stated: rules of equal Priority are tried in the order of the
\* rulebook source, the load's sort being stable: when two rules of the same
\* Priority both match a concepto, the one listed first in the source always
\* supplies the template, so every sheet written is the one the stable order
\* gives.
C12_EqualPriorityKeepsSourceOrder ==
    (variant = "process_statements" /\ RulebookLoaded(rules_df)) =>
        \A k \in 1..Len(sheets) :
            sheets[k].df = SheetUnderStableOrder(pdf_files[sheets[k].file])

(***************************************************************************)
(* Claims about the document handle of find_transaction_tables             *)
(***************************************************************************)
\* C13 as stated: whenever the document was opened, doc.close() has been
\* called by the time find_transaction_tables returns, also when reading a
\* page raises during the scan, when the page range is invalid and when the
\* table extraction fails: the function never returns with the handle open.
C13_HandleClosedOnReturn ==
    (FindDone /\ ret.doc_opened) => ret.doc_closed

(***************************************************************************)
(* Claims about what merge_concepto_lines leaves alone                     *)
(***************************************************************************)
\* C14: merge_concepto_lines changes no field other than 'concepto'.  The
\* Transactions keep the columns of the input; in each of them every column
\* other than 'concepto' holds the value of the numeric-'dia' row that
\* started it, never the value of a continuation row; and the rows of the
\* input table are as they were before the call.
C14_OnlyConceptoChanges ==
    (MergeDone /\ MergeInputHasBothColumns) =>
        /\ ret.input = call.df
        /\ (~ret.raised /\ ret.df.rows /= << >>) =>
              /\ ret.df.columns = call.df.columns
              /\ \A k \in 1..Len(ret.df.rows) :
                    OtherCells(call.df, ret.df.rows[k])
                        = OtherCells(call.df, call.df.rows[NthNumericDiaRow(call.df, k)])

\* C14 witness: a Transaction took the text of a continuation row that has
\* an amount of its own, and kept the day and the amount of its first row.
C14_Witness ==
    /\ MergeDone
    /\ call.df = DataFrame(MergeColumns,
                    << << << "7" >>, TXT_A, << "1" >> >>,
                       << << "x" >>, TXT_B_padded, << "2" >> >>,
                       << << "7" >>, TXT_A, << "3" >> >> >>)
    /\ ret.input = call.df
    /\ ret.df.rows = << << << "7" >>, TXT_A \o << " " >> \o TXT_B_padded, << "1" >> >>,
                        << << "7" >>, TXT_A, << "3" >> >> >>

(***************************************************************************)
(* Claims about keywords that normalize to the empty text                  *)
(***************************************************************************)
\* Every keyword of the rule normalizes to ''.
AllKeywordsEmpty(rule) ==
    \A k \in 1..Len(KeywordsOf(rule)) : normalize_text(KeywordsOf(rule)[k]) = << >>

\* C15: a keyword that normalizes to '' (an empty Keywords text, a trailing
\* or doubled comma, a blank entry) is part of every normalized concepto, so
\* a rule whose keywords all normalize to '' matches every concepto, the
\* empty one included; once it is reached in the priority order, the result
\* is its template: no later rule's template and no fall-through to the
\* original text.
C15_EmptyKeywordsMatchEverything ==
    ApplyRulesDone =>
        \A i \in 1..Len(call.rules_df) :
            AllKeywordsEmpty(call.rules_df[i]) =>
                /\ AllKeywordsIn(call.rules_df[i], call.concepto)
                /\ \E j \in 1..i : ret = Str(call.rules_df[j].Template)
                /\ (\A j \in 1..(i - 1) :
                        ~AllKeywordsIn(call.rules_df[j], call.concepto))
                      => ret = Str(call.rules_df[i].Template)

\* C15 witness: the rule with the keywords ', ,' comes before a rule that
\* matches 'PAGO A PROVEEDOR X', and its template is what is returned.
C15_Witness ==
    /\ ApplyRulesDone
    /\ call.rules_df = << RULE_comodin, RULE_proveedor >>
    /\ call.concepto = TXT_PAGO_A_PROVEEDOR_X
    /\ ret = TXT_Comodin

\* The same rule given the empty concepto.
C15_EmptyConceptoReached ==
    /\ ApplyRulesDone
    /\ call.rules_df = << RULE_pago, RULE_blank >>
    /\ call.concepto = << >>
    /\ ret = TXT_Otros

=============================================================================
